---- MODULE Spec2Model ----
(***************************************************************************)
(* Model of scripts/fill_db.js: the batched synthetic data generator that  *)
(* fills users, products, orders and orderitems through the shared pg      *)
(* connection pool of src/db.js.                                           *)
(*                                                                         *)
(* The generator is one async control flow (run) that calls pool.query     *)
(* once per batch and suspends at each await.  The pool is the             *)
(* environment: it settles an outstanding call by resolving or rejecting.  *)
(* The configuration constants of the script (BATCH_SIZE, TOTAL_USERS,     *)
(* TOTAL_PRODUCTS, TOTAL_ORDERS) are drawn from bounded sets in Init and   *)
(* never change afterwards.                                                *)
(***************************************************************************)
EXTENDS Integers, Sequences, FiniteSets

VARIABLES
    cfg,        \* the script's constants, fill_db.js:2-5
    runNo,      \* "first" or "second" execution of the script on the same database
    stage,      \* where run() is: the insert_* being executed, "end", "done", "rejected"
    pc,         \* "loop": about to build a batch; "await": suspended at an await
    i,          \* loop variable i of the insert_* function being executed
    inflight,   \* calls outstanding against the pool, oldest first
    ended,      \* number of pool.end() calls that have completed in this process
    failed,     \* some pool.query of this process has rejected
    batches,    \* per table: sizes of the statements submitted by this process
    completed,  \* per table: number of statements of this process that resolved
    emails,     \* emails of the user rows submitted by this process, in order
    userTable,  \* email column of table users (persists across executions)
    rowCount    \* per table: number of rows stored (persists across executions)

vars == <<cfg, runNo, stage, pc, i, inflight, ended, failed, batches, completed,
          emails, userTable, rowCount>>

(***************************************************************************)
(* Bounds of the model.                                                    *)
(***************************************************************************)
MaxBatch == 2
MaxTotal == 3
\* Math.random() is modelled as k / RandDen; NowSpan is Date.now() - start.
RandDen == 1000
NowSpan == 7

Tables == {"users", "products", "orders", "orderitems"}

\* Representative results of Math.random(): the least value, 0, and the
\* greatest value below 1 at the model's resolution.
RandomSamples == {0, RandDen - 1}

(***************************************************************************)
(* Pure helpers of the script.                                             *)
(***************************************************************************)
\* Math.floor(Math.random() * n) for Math.random() = r / RandDen
FloorRandomTimes(r, n) == (r * n) \div RandDen

\* Math.floor(Math.random() * n) + 1
RandomIdOffByOne(r, n) == FloorRandomTimes(r, n)
RandomId(r, n) == FloorRandomTimes(r, n) + 1

\* (Math.random() * 500).toFixed(2), as a number of cents (round to nearest)
Price(r) == (2 * r * 50000 + RandDen) \div (2 * RandDen)

\* randomDate(): start + Math.random() * (end - start), truncated by Date,
\* as an offset from start (2023-01-01)
randomDate(r) == (r * NowSpan) \div RandDen

\* `user${k}@gmail.com` and `Product ${k}`
Email(k) == <<"user", k, "@gmail.com">>
ProductName(k) == <<"Product", k>>

\* const TOTAL_ITEMS = TOTAL_ORDERS * 3
TOTAL_ITEMS == cfg.TOTAL_ORDERS * 3

\* the bound of the for loop of each insert_* function
Total(t) ==
    CASE t = "users" -> cfg.TOTAL_USERS
      [] t = "products" -> cfg.TOTAL_PRODUCTS
      [] t = "orders" -> cfg.TOTAL_ORDERS
      [] t = "orderitems" -> TOTAL_ITEMS

\* the inner loop: for (let j = 0; j < BATCH_SIZE; j++) pushes one row per j
BatchLen == cfg.BATCH_SIZE

\* the order of the calls in run()
NextStageOrdersFirst(s) ==
    CASE s = "users" -> "orders"
      [] s = "orders" -> "products"
      [] s = "products" -> "orderitems"
      [] s = "orderitems" -> "end"
      [] OTHER -> "done"
NextStageEarlyEnd(s) ==
    CASE s = "users" -> "products"
      [] s = "products" -> "orders"
      [] s = "orders" -> "end"
      [] s = "end" -> "orderitems"
      [] OTHER -> "done"
NextStage(s) ==
    CASE s = "users" -> "products"
      [] s = "products" -> "orders"
      [] s = "orders" -> "orderitems"
      [] s = "orderitems" -> "end"
      [] OTHER -> "done"

\* the for loops' condition
LoopCond(k, t) == k < Total(t)

\* `await pool.query(query)`: the generator suspends until the call settles
NoAwait == FALSE
AwaitQuery == TRUE

\* run() has no try/catch: a rejected await rejects run(), whose promise has
\* no handler, so the process dies with an unhandled rejection
OnRejectedRetry(s) == s
OnRejected(s) == "rejected"

\* i += BATCH_SIZE, the loop test, and the return to run() when it fails
AfterBatchStage(s, k) ==
    IF LoopCond(k + cfg.BATCH_SIZE, s) THEN s ELSE NextStage(s)
AfterBatchI(s, k) ==
    IF LoopCond(k + cfg.BATCH_SIZE, s) THEN k + cfg.BATCH_SIZE ELSE 0

Query(t, values) == [op |-> "query", table |-> t, values |-> values]
EndCall == [op |-> "end", table |-> "none", values |-> <<>>]

(***************************************************************************)
(* Initial state: a fresh process on empty tables.                         *)
(***************************************************************************)
Init ==
    /\ cfg \in [BATCH_SIZE : 1..MaxBatch, TOTAL_USERS : 1..MaxTotal,
                TOTAL_PRODUCTS : 1..MaxTotal, TOTAL_ORDERS : 1..MaxTotal]
    /\ runNo = "first"
    /\ stage = "users"
    /\ pc = "loop"
    /\ i = 0
    /\ inflight = <<>>
    /\ ended = 0
    /\ failed = FALSE
    /\ batches = [t \in Tables |-> <<>>]
    /\ completed = [t \in Tables |-> 0]
    /\ emails = <<>>
    /\ userTable = <<>>
    /\ rowCount = [t \in Tables |-> 0]

(***************************************************************************)
(* The generator's steps.                                                  *)
(***************************************************************************)
\* pool.query(query) with the batch just built, then the await (or, were the
\* call not awaited, the next loop iteration)
Submit(t, values) ==
    /\ inflight' = Append(inflight, Query(t, values))
    /\ batches' = [batches EXCEPT ![t] = Append(@, Len(values))]
    /\ IF AwaitQuery
         THEN pc' = "await" /\ UNCHANGED <<stage, i>>
         ELSE /\ pc' = "loop"
              /\ stage' = AfterBatchStage(t, i)
              /\ i' = AfterBatchI(t, i)
    /\ UNCHANGED <<cfg, runNo, ended, failed, completed, userTable, rowCount>>

insert_users ==
    /\ stage = "users" /\ pc = "loop" /\ LoopCond(i, "users")
    /\ LET values == [n \in 1..BatchLen |-> [email |-> Email(i + (n - 1) + 1)]]
       IN /\ Submit("users", values)
          /\ emails' = emails \o [n \in 1..Len(values) |-> values[n].email]

insert_products ==
    /\ stage = "products" /\ pc = "loop" /\ LoopCond(i, "products")
    /\ \E r \in [1..BatchLen -> RandomSamples] :
         LET values == [n \in 1..BatchLen |->
                          [name |-> ProductName(i + (n - 1) + 1),
                           price |-> Price(r[n])]]
         IN Submit("products", values)
    /\ UNCHANGED emails

insert_orders ==
    /\ stage = "orders" /\ pc = "loop" /\ LoopCond(i, "orders")
    /\ \E r \in [1..BatchLen -> RandomSamples \X RandomSamples] :
         LET values == [n \in 1..BatchLen |->
                          [user_id |-> RandomId(r[n][1], cfg.TOTAL_USERS),
                           created_at |-> randomDate(r[n][2]),
                           status |-> "completed"]]
         IN Submit("orders", values)
    /\ UNCHANGED emails

insert_orderitems ==
    /\ stage = "orderitems" /\ pc = "loop" /\ LoopCond(i, "orderitems")
    /\ \E r \in [1..BatchLen ->
                   RandomSamples \X RandomSamples \X RandomSamples \X RandomSamples] :
         LET values == [n \in 1..BatchLen |->
                          [order_id |-> RandomId(r[n][1], cfg.TOTAL_ORDERS),
                           product_id |-> RandomId(r[n][2], cfg.TOTAL_PRODUCTS),
                           quantity |-> RandomId(r[n][3], 10),
                           price |-> Price(r[n][4])]]
         IN Submit("orderitems", values)
    /\ UNCHANGED emails

\* await pool.end()
pool_end ==
    /\ stage = "end" /\ pc = "loop"
    /\ inflight' = Append(inflight, EndCall)
    /\ pc' = "await"
    /\ UNCHANGED <<cfg, runNo, stage, i, ended, failed, batches, completed,
                   emails, userTable, rowCount>>

(***************************************************************************)
(* The pool's steps: the oldest outstanding call settles.  A resolved      *)
(* INSERT has stored its rows; the generator, if suspended on the call,    *)
(* resumes in the same step (its continuation runs as soon as the promise  *)
(* settles).                                                               *)
(***************************************************************************)
QueryResolved ==
    /\ inflight # <<>> /\ Head(inflight).op = "query"
    /\ LET q == Head(inflight) IN
         /\ inflight' = Tail(inflight)
         /\ rowCount' = [rowCount EXCEPT ![q.table] = @ + Len(q.values)]
         /\ completed' = [completed EXCEPT ![q.table] = @ + 1]
         /\ userTable' = IF q.table = "users"
                           THEN userTable \o [n \in 1..Len(q.values) |-> q.values[n].email]
                           ELSE userTable
         /\ IF pc = "await"
              THEN /\ pc' = "loop"
                   /\ stage' = AfterBatchStage(stage, i)
                   /\ i' = AfterBatchI(stage, i)
              ELSE UNCHANGED <<pc, stage, i>>
    /\ UNCHANGED <<cfg, runNo, ended, failed, batches, emails>>

QueryRejected ==
    /\ inflight # <<>> /\ Head(inflight).op = "query"
    /\ inflight' = Tail(inflight)
    /\ failed' = TRUE
    /\ IF pc = "await"
         THEN pc' = "loop" /\ stage' = OnRejected(stage)
         ELSE UNCHANGED <<pc, stage>>
    /\ UNCHANGED <<cfg, runNo, i, ended, batches, completed, emails,
                   userTable, rowCount>>

EndResolved ==
    /\ inflight # <<>> /\ Head(inflight).op = "end"
    /\ inflight' = Tail(inflight)
    /\ ended' = ended + 1
    /\ IF pc = "await"
         THEN pc' = "loop" /\ stage' = NextStage(stage)
         ELSE UNCHANGED <<pc, stage>>
    /\ UNCHANGED <<cfg, runNo, i, failed, batches, completed, emails,
                   userTable, rowCount>>

(***************************************************************************)
(* The operator runs the script again on the tables a completed first      *)
(* execution left: a new process with a new pool, the same database.       *)
(***************************************************************************)
Rerun ==
    /\ stage = "done" /\ runNo = "first"
    /\ runNo' = "second"
    /\ stage' = "users"
    /\ pc' = "loop"
    /\ i' = 0
    /\ inflight' = <<>>
    /\ ended' = 0
    /\ failed' = FALSE
    /\ batches' = [t \in Tables |-> <<>>]
    /\ completed' = [t \in Tables |-> 0]
    /\ emails' = <<>>
    /\ UNCHANGED <<cfg, userTable, rowCount>>

Next ==
    \/ insert_users
    \/ insert_products
    \/ insert_orders
    \/ insert_orderitems
    \/ pool_end
    \/ QueryResolved
    \/ QueryRejected
    \/ EndResolved
    \/ Rerun

Spec == Init /\ [][Next]_vars

(***************************************************************************)
(* Vocabulary of the properties.                                           *)
(***************************************************************************)
RECURSIVE SumSeq(_)
SumSeq(q) == IF q = <<>> THEN 0 ELSE Head(q) + SumSeq(Tail(q))

\* ceil(a / b) for positive b
Ceil(a, b) == (a + b - 1) \div b

\* rows this process has handed to pool.query for table t
RowsSubmitted(t) == SumSeq(batches[t])

\* every batch the stage has to submit was submitted and has resolved
StageComplete(t) ==
    /\ Len(batches[t]) = Ceil(Total(t), cfg.BATCH_SIZE)
    /\ completed[t] = Len(batches[t])

\* the stage has submitted at least one batch
Started(t) == batches[t] # <<>>

Rank(t) ==
    CASE t = "users" -> 1
      [] t = "products" -> 2
      [] t = "orders" -> 3
      [] t = "orderitems" -> 4

\* the k of `user${k}@gmail.com`
EmailIndex(e) == e[2]

Occurrences(q, x) == Cardinality({n \in 1..Len(q) : q[n] = x})

EndOutstanding == \E n \in 1..Len(inflight) : inflight[n].op = "end"

\* the process is over: run() resolved, or its rejection killed the process
Terminated == stage \in {"done", "rejected"}

(***************************************************************************)
(* C1: a run in which no batch fails submits, per table, exactly the       *)
(* configured total number of rows (TOTAL_ORDERS * 3 for orderitems), for  *)
(* every positive total and batch size.                                    *)
(***************************************************************************)
C1_ExactTotals ==
    (stage = "done" /\ ~failed) =>
        \A t \in Tables : RowsSubmitted(t) = Total(t)

(***************************************************************************)
(* C2: a failure-free run submits ceil(total / batch_size) statements per  *)
(* table; each holds batch_size rows except the last, which holds          *)
(* total - (ceil(total / batch_size) - 1) * batch_size rows.               *)
(***************************************************************************)
C2_BatchShape ==
    (stage = "done" /\ ~failed) =>
        \A t \in Tables :
            LET n == Ceil(Total(t), cfg.BATCH_SIZE) IN
            /\ Len(batches[t]) = n
            /\ \A k \in 1..(Len(batches[t]) - 1) : batches[t][k] = cfg.BATCH_SIZE
            /\ batches[t][Len(batches[t])] = Total(t) - (n - 1) * cfg.BATCH_SIZE

\* the part of C2 the code meets: the number of statements
C2_BatchCount ==
    (stage = "done" /\ ~failed) =>
        \A t \in Tables : Len(batches[t]) = Ceil(Total(t), cfg.BATCH_SIZE)

(***************************************************************************)
(* C3: every user row submitted so far has an email index k with           *)
(* 1 <= k <= TOTAL_USERS, no two submitted rows share an index, and after  *)
(* a failure-free users stage the indices are exactly 1..TOTAL_USERS.      *)
(***************************************************************************)
C3_EmailIndices ==
    /\ \A n \in 1..Len(emails) :
          1 <= EmailIndex(emails[n]) /\ EmailIndex(emails[n]) <= cfg.TOTAL_USERS
    /\ \A m, n \in 1..Len(emails) : emails[m] = emails[n] => m = n
    /\ (StageComplete("users") /\ stage # "users") =>
          {EmailIndex(emails[n]) : n \in 1..Len(emails)} = 1..cfg.TOTAL_USERS

(***************************************************************************)
(* C4: if a batch submission fails, pool.end is still attempted: a process *)
(* that has terminated after a rejected pool.query has released (or is     *)
(* releasing) its pool.                                                    *)
(***************************************************************************)
C4_TeardownOnFailure ==
    (failed /\ Terminated) => (ended >= 1 \/ EndOutstanding)

(***************************************************************************)
(* C5: a rejected pool.query is fatal: the run is at once in the failed    *)
(* state with nothing outstanding, and from then on no statement is        *)
(* submitted (no retry, no skip to the next batch or stage) and the pool's *)
(* tables receive nothing more.                                            *)
(***************************************************************************)
C5_FailFast ==
    /\ [](failed => (stage = "rejected" /\ inflight = <<>>))
    /\ [][failed' => (/\ batches' = batches
                      /\ rowCount' = rowCount
                      /\ completed' = completed
                      /\ stage' = "rejected")]_vars

C5_Witness ==
    /\ failed /\ stage = "rejected"
    /\ StageComplete("users") /\ StageComplete("products")
    /\ Len(batches["orders"]) = 2 /\ completed["orders"] = 1
    /\ ~Started("orderitems")

(***************************************************************************)
(* C6: in a failure-free run the pool is released exactly once, pool.end   *)
(* is called only when every batch of every stage (the last order-item     *)
(* batch included) has resolved, and nothing is submitted to a released    *)
(* pool.                                                                   *)
(***************************************************************************)
C6_ReleaseOnceAtEnd ==
    /\ [](/\ ended <= 1
          /\ (stage = "done") => (ended = 1 /\ ~failed)
          /\ (ended >= 1 \/ EndOutstanding) => \A t \in Tables : StageComplete(t)
          /\ (ended >= 1) => (inflight = <<>> /\ stage = "done"))
    /\ [][(ended >= 1 /\ runNo' = runNo) => inflight' = inflight /\ batches' = batches]_vars

C6_Witness ==
    /\ stage = "done" /\ ended = 1 /\ ~failed
    /\ cfg.TOTAL_ORDERS = MaxTotal /\ cfg.BATCH_SIZE = MaxBatch
    /\ completed["orderitems"] = Ceil(TOTAL_ITEMS, cfg.BATCH_SIZE)

(***************************************************************************)
(* C7: every submitted order row has user_id in 1..TOTAL_USERS and status  *)
(* 'completed'; every submitted order-item row has order_id in             *)
(* 1..TOTAL_ORDERS, product_id in 1..TOTAL_PRODUCTS and quantity in 1..10; *)
(* and when such a row is submitted the referenced stages have resolved    *)
(* all their batches, so the referenced table holds at least that many     *)
(* rows.                                                                   *)
(***************************************************************************)
C7_ReferencesInRange ==
    \A n \in 1..Len(inflight) :
        LET q == inflight[n] IN
        /\ (q.op = "query" /\ q.table = "orders") =>
              /\ StageComplete("users")
              /\ \A k \in 1..Len(q.values) :
                    /\ q.values[k].user_id \in 1..cfg.TOTAL_USERS
                    /\ q.values[k].user_id <= rowCount["users"]
                    /\ q.values[k].status = "completed"
        /\ (q.op = "query" /\ q.table = "orderitems") =>
              /\ StageComplete("orders") /\ StageComplete("products")
              /\ \A k \in 1..Len(q.values) :
                    /\ q.values[k].order_id \in 1..cfg.TOTAL_ORDERS
                    /\ q.values[k].order_id <= rowCount["orders"]
                    /\ q.values[k].product_id \in 1..cfg.TOTAL_PRODUCTS
                    /\ q.values[k].product_id <= rowCount["products"]
                    /\ q.values[k].quantity \in 1..10

C7_Witness ==
    /\ cfg.TOTAL_ORDERS = MaxTotal /\ cfg.TOTAL_PRODUCTS = MaxTotal
    /\ inflight # <<>>
    /\ inflight[1].table = "orderitems"
    /\ \E k \in 1..Len(inflight[1].values) :
          /\ inflight[1].values[k].order_id = cfg.TOTAL_ORDERS
          /\ inflight[1].values[k].product_id = 1
          /\ inflight[1].values[k].quantity = 10

(***************************************************************************)
(* C8: a second execution on the tables a failure-free first execution     *)
(* left appends: afterwards every table holds exactly twice its configured *)
(* total, and each email user1..user<TOTAL_USERS> is stored exactly twice  *)
(* (and no other email is stored).                                         *)
(***************************************************************************)
C8_SecondRunDoubles ==
    (runNo = "second" /\ stage = "done") =>
        /\ \A t \in Tables : rowCount[t] = 2 * Total(t)
        /\ Len(userTable) = 2 * cfg.TOTAL_USERS
        /\ \A k \in 1..cfg.TOTAL_USERS : Occurrences(userTable, Email(k)) = 2

(***************************************************************************)
(* C9: at most one call is outstanding against the pool at any time, and   *)
(* whenever the generator is about to submit (a batch or pool.end) nothing *)
(* is outstanding.                                                         *)
(***************************************************************************)
C9_OneOutstanding ==
    /\ Len(inflight) <= 1
    /\ (pc = "loop") => (inflight = <<>>)
    /\ (pc = "await") => (Len(inflight) = 1)

C9_Witness ==
    /\ Len(inflight) = 1
    /\ inflight[1].table = "orderitems"
    /\ Len(batches["orderitems"]) >= 2
    /\ completed["orderitems"] = Len(batches["orderitems"]) - 1

(***************************************************************************)
(* C10: stages run in the order users, products, orders, order items,      *)
(* pool release: a stage has submitted a batch only if every batch of      *)
(* every earlier stage has resolved, pool.end is called only after all     *)
(* four, and once a later stage has started no earlier stage submits       *)
(* again.                                                                  *)
(***************************************************************************)
C10_StageOrder ==
    /\ [](/\ \A e, l \in Tables :
                (Rank(e) < Rank(l) /\ Started(l)) => StageComplete(e)
          /\ (EndOutstanding \/ ended >= 1 \/ stage \in {"end", "done"}) =>
                \A t \in Tables : StageComplete(t))
    /\ [][\A e, l \in Tables :
             (Rank(e) < Rank(l) /\ Started(l) /\ runNo' = runNo) =>
                 batches'[e] = batches[e]]_vars

C10_Witness ==
    /\ stage = "orderitems" /\ pc = "await"
    /\ cfg.BATCH_SIZE = MaxBatch
    /\ \A t \in Tables \ {"orderitems"} : StageComplete(t) /\ Len(batches[t]) >= 2

====
